---- MODULE Spec2Model ----
(***************************************************************************)
(* Model of rusty_di_runner: the batch dispatcher of                       *)
(* src/src/clients/base.rs, the LRO drivers of                             *)
(* src/src/clients/document_intelligence.rs and the binding entry points   *)
(* of src/src/models/analysis_client.rs.                                   *)
(*                                                                         *)
(* Text is modelled as a sequence of string atoms: a message is the        *)
(* concatenation of the literals of its format string and of the values    *)
(* interpolated into it.  Positions and credential indexes are 0-based, as *)
(* in the source.                                                          *)
(***************************************************************************)
EXTENDS Integers, Sequences, FiniteSets, TLC

\* ---------------------------------------------------------------- bounds
MaxCreds == 2
MaxItems == 2
MaxRps == 1
MaxPolls == 1
\* Whitespace characters put on either side of a format word.
MaxPad == 1
\* Slashes put at the end of an endpoint.
MaxSlashes == 2
\* Items that the batch calls on one client are given in all.
MaxServed == 3
\* Clients constructed in one process.
MaxClients == 3
\* Width of the round-robin counter, in bits.
CounterBits == 2
\* Width of the usize in which the semaphore size is computed, in bits.
UsizeBits == 9
\* Length of the longest status string the service answers with.
MaxStatusLen == 300

\* ------------------------------------------------------------- constants
DefaultMaxRps == 15

api_version == "2024-11-30"

ModelId == "prebuilt-layout"

\* ------------------------------------------------------------ data types
\* Option<T>: <<>> is None, <<x>> is Some(x).
None == <<>>

Some(x) == <<x>>

IsSome(o) == Len(o) = 1

Range(f) == {f[x] : x \in DOMAIN f}

\* SecretString: the plaintext of credential c's key.  header_ok tells
\* whether the plaintext is a legal HTTP header value.
KeyText(c) == "key:" \o ToString(c)

Credentials(c, hdr) ==
    [api_key |-> [secret |-> KeyText(c), header_ok |-> hdr],
     endpoint |-> <<"https://r" \o ToString(c) \o ".example", "/">>]

NoPayload == [item |-> -1, conforming |-> FALSE]

\* serde_json::Value returned as analyzeResult for item i; conforming tells
\* whether it deserializes into AnalyzeResult.
Payload(i, conf) == [item |-> i, conforming |-> conf]

\* Result<Value, String> and Result<anyhow::Result<Value>, JoinError>.
NoOutcome == [tag |-> "none", val |-> NoPayload, msg |-> <<>>]

OkOf(v) == [tag |-> "ok", val |-> v, msg |-> <<>>]

ErrOf(m) == [tag |-> "err", val |-> NoPayload, msg |-> m]

JoinErrOf(m) == [tag |-> "join_err", val |-> NoPayload, msg |-> m]

\* ------------------------------------------------- output format (pure)
\* A format string is a sequence of one-character strings.
Whitespace == {" ", "\t", "\n"}

UpperChars == <<"T", "E", "X", "M", "A", "R", "K", "D", "O", "W", "N", "P", "F">>

LowerChars == <<"t", "e", "x", "m", "a", "r", "k", "d", "o", "w", "n", "p", "f">>

\* char::to_lowercase on the letters in use.
LowerChar(ch) ==
    IF \E k \in 1..Len(UpperChars) : UpperChars[k] = ch
    THEN LowerChars[CHOOSE k \in 1..Len(UpperChars) : UpperChars[k] = ch]
    ELSE ch

\* str::to_lowercase
ToLowercase(s) == [k \in 1..Len(s) |-> LowerChar(s[k])]

RECURSIVE TrimStart(_)
TrimStart(s) ==
    IF s # <<>> /\ Head(s) \in Whitespace THEN TrimStart(Tail(s)) ELSE s

RECURSIVE TrimEnd(_)
TrimEnd(s) ==
    IF s # <<>> /\ s[Len(s)] \in Whitespace
    THEN TrimEnd(SubSeq(s, 1, Len(s) - 1))
    ELSE s

\* Mutant: only leading whitespace is removed (trim_start).
Trim_StartOnly(s) == TrimStart(s)

\* str::trim
Trim(s) == TrimEnd(TrimStart(s))

TextChars == <<"t", "e", "x", "t">>

MarkdownChars == <<"m", "a", "r", "k", "d", "o", "w", "n">>

\* Mutant: an unknown word falls back to the default variant.
FromStr_DefaultText(s) ==
    LET t == ToLowercase(Trim(s))
    IN  IF t = MarkdownChars THEN Some("Markdown") ELSE Some("Text")

\* OutputContentFormat::from_str: Some(variant) or None for the Err branch.
FromStr(s) ==
    LET t == ToLowercase(Trim(s))
    IN  IF t = TextChars THEN Some("Text")
        ELSE IF t = MarkdownChars THEN Some("Markdown")
        ELSE None

\* impl Display for OutputContentFormat
FormatToString(variant) == IF variant = "Markdown" THEN "markdown" ELSE "text"

\* The match on output_format of process_batch_documents_*: Option<String>
\* to Some(canonical token), or None when from_str returned Err.
ParseOutputFormat(opt) ==
    IF IsSome(opt)
    THEN (IF IsSome(FromStr(opt[1]))
          THEN Some(FormatToString(FromStr(opt[1])[1]))
          ELSE None)
    ELSE Some(FormatToString("Text"))

\* let semaphore_size = max_rps.unwrap_or(15) * self.credentials.len()
UnwrapMaxRps(opt) == IF IsSome(opt) THEN opt[1] ELSE DefaultMaxRps

\* The multiplication as a build without overflow checks computes it.
SemaphoreSize(opt, ncreds) == (UnwrapMaxRps(opt) * ncreds) % (2 ^ UsizeBits)

\* What the multiplication can yield: its value, or, when the product
\* does not fit a usize, None (the panic of a build with overflow checks)
\* or the wrapped value (a build without them).
SemaphoreSizes(opt, ncreds) ==
    IF UnwrapMaxRps(opt) * ncreds < 2 ^ UsizeBits
    THEN {Some(SemaphoreSize(opt, ncreds))}
    ELSE {None, Some(SemaphoreSize(opt, ncreds))}

\* tokio::sync::Semaphore::MAX_PERMITS == usize::MAX >> 3; Semaphore::new
\* panics when it is given more.
MAX_PERMITS == (2 ^ UsizeBits - 1) \div 8

\* ------------------------------------------------------ request builder
\* Mutant: one trailing slash is removed (strip_suffix).
TrimEndMatches_Once(e) ==
    IF e # <<>> /\ e[Len(e)] = "/" THEN SubSeq(e, 1, Len(e) - 1) ELSE e

\* str::trim_end_matches('/') on a sequence of atoms.
RECURSIVE TrimEndMatches(_)
TrimEndMatches(e) ==
    IF e # <<>> /\ e[Len(e)] = "/"
    THEN TrimEndMatches(SubSeq(e, 1, Len(e) - 1))
    ELSE e

RECURSIVE Join(_)
\* [String]::join(",")
Join(fs) ==
    IF fs = <<>> THEN <<>>
    ELSE IF Len(fs) = 1 THEN <<fs[1]>>
    ELSE <<fs[1], ",">> \o Join(Tail(fs))

\* Mutant: the features parameter is appended whenever a list was given.
AnalyzeUrl_FeaturesWhenPresent(creds, model_id, fmt, feats) ==
    TrimEndMatches(creds.endpoint)
        \o <<"/documentintelligence/documentModels/", model_id,
              ":analyze?api-version=", api_version,
              "&outputContentFormat=", fmt>>
        \o (IF IsSome(feats)
            THEN <<"&features=">> \o Join(feats[1])
            ELSE <<>>)

\* analyze_url of analyze_document_from_urls.
AnalyzeUrl(creds, model_id, fmt, feats) ==
    TrimEndMatches(creds.endpoint)
        \o <<"/documentintelligence/documentModels/", model_id,
              ":analyze?api-version=", api_version,
              "&outputContentFormat=", fmt>>
        \o (IF IsSome(feats) /\ feats[1] # <<>>
            THEN <<"&features=">> \o Join(feats[1])
            ELSE <<>>)

\* Mutant: the file driver leaves the output format out of the query.
AnalyzeUrlFromFilePath_NoFormat(creds, model_id, fmt, feats) ==
    LET endpoint == TrimEndMatches(creds.endpoint)
        analyze_url == endpoint
            \o <<"/documentintelligence/documentModels/", model_id,
                  ":analyze?api-version=", api_version>>
    IN  IF IsSome(feats) /\ ~(feats[1] = <<>>)
        THEN analyze_url \o <<"&features=">> \o Join(feats[1])
        ELSE analyze_url

\* analyze_url of analyze_document_from_file_path.
AnalyzeUrlFromFilePath(creds, model_id, fmt, feats) ==
    LET endpoint == TrimEndMatches(creds.endpoint)
        analyze_url == endpoint
            \o <<"/documentintelligence/documentModels/", model_id,
                  ":analyze?api-version=", api_version,
                  "&outputContentFormat=", fmt>>
    IN  IF IsSome(feats) /\ ~(feats[1] = <<>>)
        THEN analyze_url \o <<"&features=">> \o Join(feats[1])
        ELSE analyze_url

\* ----------------------------------------------------------- content type
RECURSIVE Concat(_)
\* The atoms of a text joined into one string.
Concat(parts) ==
    IF parts = <<>> THEN "" ELSE Head(parts) \o Concat(Tail(parts))

\* Path::extension on a file name split at its dots: None without a dot
\* or with a leading dot only, otherwise what follows the last dot.
Extension(name) ==
    LET dots == {k \in 1..Len(name) : name[k] = "."}
        last == CHOOSE k \in dots : \A j \in dots : j <= k
    IN  IF dots = {} THEN None
        ELSE IF last = 1 THEN None
        ELSE Some(Concat(SubSeq(name, last + 1, Len(name))))

\* Path::file_name on a path split at its separators and dots: what
\* follows the last separator.
PathFileName(path) ==
    LET seps == {k \in 1..Len(path) : path[k] = "/"}
    IN  IF seps = {} THEN path
        ELSE SubSeq(path, (CHOOSE k \in seps : \A j \in seps : j <= k) + 1,
                    Len(path))

\* str::to_ascii_lowercase on the extensions in use.
LowerExt(ext) ==
    IF ext = Some("PDF") THEN Some("pdf")
    ELSE IF ext = Some("Pdf") THEN Some("pdf")
    ELSE IF ext = Some("JPG") THEN Some("jpg")
    ELSE IF ext = Some("JPEG") THEN Some("jpeg")
    ELSE IF ext = Some("PNG") THEN Some("png")
    ELSE IF ext = Some("TIFF") THEN Some("tiff")
    ELSE IF ext = Some("TIF") THEN Some("tif")
    ELSE IF ext = Some("BMP") THEN Some("bmp")
    ELSE ext

\* Mutant: the extension is compared without regard to case.
get_content_type_IgnoreCase(file_path) ==
    LET ext == LowerExt(Extension(PathFileName(file_path)))
    IN  IF ext = Some("pdf") THEN "application/pdf"
        ELSE IF ext = Some("jpg") \/ ext = Some("jpeg") THEN "image/jpeg"
        ELSE IF ext = Some("png") THEN "image/png"
        ELSE IF ext = Some("tiff") \/ ext = Some("tif") THEN "image/tiff"
        ELSE IF ext = Some("bmp") THEN "image/bmp"
        ELSE "application/octet-stream"

\* utils::helpers::get_content_type
get_content_type(file_path) ==
    LET ext == Extension(PathFileName(file_path))
    IN  IF ext = Some("pdf") THEN "application/pdf"
        ELSE IF ext = Some("jpg") \/ ext = Some("jpeg") THEN "image/jpeg"
        ELSE IF ext = Some("png") THEN "image/png"
        ELSE IF ext = Some("tiff") \/ ext = Some("tif") THEN "image/tiff"
        ELSE IF ext = Some("bmp") THEN "image/bmp"
        ELSE "application/octet-stream"

\* ------------------------------------------------------------- messages
\* The item at position i (a document URL or a file path), its file name
\* and the operation-location the service hands out for it.
ItemText(i) == "item:" \o ToString(i)

FileName(i) == "name:" \o ToString(i)

OpLoc(i) == "oploc:" \o ToString(i)

\* Mutant: the error echoes the value that failed to parse.
InvalidHeaderValueText_Echo(key) == <<"failed to parse header value: ", key.secret>>

\* Display of http::header::InvalidHeaderValue (HeaderValue::from_str).
InvalidHeaderValueText(key) == <<"failed to parse header value">>

\* Display of reqwest::Error for a failed send().
SendErrorText(url) == <<"error sending request for url (">> \o url \o <<")">>

\* Display of reqwest::Error from error_for_status().
StatusErrorText(code, url) ==
    <<"HTTP status server error (", code, ") for url (">> \o url \o <<")">>

MissingHeaderText == <<"Response missing 'operation-location' header">>

\* Display of http::header::ToStrError (HeaderValue::to_str).
ToStrErrorText == <<"failed to convert header to a str">>

\* Display of reqwest::Error from json::<StatusResponse>().
DecodeErrorText == <<"error decoding response body">>

NoResultText == <<"API succeeded but returned no result">>

AnalysisFailedText == <<"Document analysis failed">>

UnknownStatusText(other) == <<"Unknown status: ", other>>

OpenErrorText(path, cause) == <<"Failed to open file ", path, ": ", cause>>

ReadErrorText(path, cause) == <<"Failed to read file ", path, ": ", cause>>

\* Display of tokio::task::JoinError.
JoinErrorText(reason) == <<"task panicked with message ", reason>>

\* Mutant: a JoinError is reported like an error the driver returned.
MapJoinResult_JoinErrAsApiError(join_result) ==
    IF join_result.tag = "ok"
    THEN OkOf(join_result.val)
    ELSE ErrOf(<<"API Error: ">> \o join_result.msg)

\* The closure mapped over join_all's output: Result<Result<Value>, JoinError>
\* to Result<Value, String>.
MapJoinResult(join_result) ==
    IF join_result.tag = "join_err"
    THEN ErrOf(<<"Task panicked: ">> \o join_result.msg)
    ELSE IF join_result.tag = "ok"
    THEN OkOf(join_result.val)
    ELSE ErrOf(<<"API Error: ">> \o join_result.msg)

\* One iteration of the conversion loop of process_batch_documents_*: an
\* AnalyzeResult object or a Python Exception carrying a message.
ToPyResult(res) ==
    IF res.tag = "ok"
    THEN (IF res.val.conforming
          THEN [tag |-> "object", val |-> res.val, msg |-> <<>>]
          ELSE [tag |-> "exception", val |-> NoPayload,
                msg |-> <<"Deserialization Error: ", "invalid type">>])
    ELSE [tag |-> "exception", val |-> NoPayload, msg |-> res.msg]

\* ------------------------------------------------------------ the service
PostReplies == {"transport_error", "http_error", "no_header", "bad_header", "accepted"}

RECURSIVE Repeat(_, _)
\* A string of n copies of ch.
Repeat(ch, n) ==
    IF n = 0 THEN ""
    ELSE IF n % 2 = 0
    THEN LET half == Repeat(ch, n \div 2) IN half \o half
    ELSE ch \o Repeat(ch, n - 1)

\* StatusResponse.status is a String: any text the service sends.
LongStatus == Repeat("s", MaxStatusLen)

Statuses ==
    {"succeeded", "failed", "running", "notStarted", "Running", LongStatus}

\* No poll answered yet.
NoReply == [kind |-> "none", status |-> "", result |-> None]

\* What a poll GET of item i's operation can come back with.
PollReplies(i) ==
    {[kind |-> k, status |-> "", result |-> None] :
        k \in {"transport_error", "http_error", "bad_body"}}
    \cup {[kind |-> "body", status |-> st, result |-> None] : st \in Statuses}
    \cup {[kind |-> "body", status |-> "succeeded", result |-> Some(Payload(i, c))] :
            c \in BOOLEAN}

HttpErrorCode == "500 Internal Server Error"

IoErrorCause == "No such file or directory (os error 2)"

\* ------------------------------------------------------------------ state
VARIABLES
    credentials,     \* RustyAnalysisClient.credentials, indexed from 0
    phase,           \* "no_client", "new_panicked", "idle", "raised",
                     \* "panicked", "running", "cancelled", "returned"
    kind,            \* "url" or "file": which batch entry point was called
    features,        \* Option<Vec<String>>
    output_format,   \* the canonical token handed to the drivers
    max_rps,         \* max_rps.unwrap_or(15)
    permits,         \* free permits of the batch's Semaphore
    current_index,   \* the batch's AtomicUsize
    pc,              \* position of each spawned task
    holds,           \* whether the task's _permit is alive
    old_index,       \* the counter value the task fetched, -1 before
    actual_index,    \* index of the credential the task cloned, -1 before
    posts,           \* submission POSTs sent per item
    gets,            \* poll GETs sent per item
    join_result,     \* what each task's JoinHandle resolves to
    finished,        \* tasks in the order in which they ended
    results,         \* Vec<Result<Value, String>> returned by the async call
    py_results,      \* the list returned to Python
    logs,            \* tracing events emitted
    post_reply,      \* the answer each item's POST got, "none" before
    poll_reply,      \* the answer each item's latest GET got
    arg,             \* arguments of the call under study (request builder)
    analyze_url,     \* the URL each task's driver built, <<>> before
    operation_location, \* the driver's operation_location, "" before
    history,         \* what each task did: file reads, requests, sleeps
    served,          \* items of the batch calls that ended on this client
    first_admitted,  \* the holder of the batch's first permit until it draws
                     \* or unwinds: -1 before the first admission, -2 after
    other,           \* a second batch call running on the same client
    TRACING_INIT,    \* static OnceCell<()>: None or Some("()")
    global_default,  \* tracing's global default subscriber, "none" if unset
    installs,        \* successful calls of set_global_default
    constructed      \* enable_logs of each client constructed so far

vars ==
    <<credentials, phase, kind, features, output_format, max_rps, permits,
      current_index, pc, holds, old_index, actual_index, posts, gets,
      join_result, finished, results, py_results, logs, post_reply,
      poll_reply, arg, analyze_url,
      operation_location, history, served, first_admitted, other,
      TRACING_INIT, global_default, installs, constructed>>

\* The state of the process outside any client.
process_vars == <<TRACING_INIT, global_default, installs, constructed>>

\* tracing::info!: the events reach the global default subscriber, and
\* nobody when none is set.
Emit(sink, events) == IF global_default = "none" THEN sink ELSE sink \cup events

reply_vars == <<post_reply, poll_reply>>

batch_vars == <<kind, features, output_format, max_rps>>

Items == DOMAIN pc

InFlight == {"admitted", "opening", "ready", "submitting", "sleeping", "polling"}

Live == {"running", "cancelled"}

\* The (features, output_format) arguments the batch calls are given here.
OptionInputs ==
    {[features |-> None, output_format |-> None],
     [features |-> None, output_format |-> Some(<<" ", "T", "e", "x", "t", " ">>)],
     [features |-> Some(<<"ocrHighResolution", "formulas">>),
      output_format |-> Some(<<"M", "A", "R", "K", "D", "O", "W", "N">>)],
     [features |-> None, output_format |-> Some(<<"p", "d", "f">>)]}

\* No batch call has been made on the client yet.
Idle ==
    /\ phase = "idle"
    /\ kind = "url"
    /\ features = None
    /\ output_format = ""
    /\ max_rps = 0
    /\ permits = 0
    /\ current_index = 0
    /\ pc = <<>>
    /\ holds = <<>>
    /\ old_index = <<>>
    /\ actual_index = <<>>
    /\ posts = <<>>
    /\ gets = <<>>
    /\ join_result = <<>>
    /\ finished = <<>>
    /\ results = <<>>
    /\ py_results = <<>>
    /\ logs = {}
    /\ post_reply = <<>>
    /\ poll_reply = <<>>
    /\ analyze_url = <<>>
    /\ operation_location = <<>>
    /\ history = <<>>
    /\ served = 0
    /\ first_admitted = -1
    /\ other = <<>>
    /\ TRACING_INIT = Some("()")
    /\ global_default = "fmt"
    /\ installs = 1
    /\ constructed = <<TRUE>>

\* RustyAnalysisClient::new: any list of credentials is stored as given.
Init ==
    /\ \E k \in 0..MaxCreds :
         \E hdr \in [0..(k - 1) -> BOOLEAN] :
            credentials = [c \in 0..(k - 1) |-> Credentials(c, hdr[c])]
    /\ arg = <<>>
    /\ Idle

ListLen == Cardinality(DOMAIN credentials)

\* Mutant: the counter is a field of the client and outlives the call.
NewCounter_Kept(prev) == prev

\* let current_index = Arc::new(AtomicUsize::new(0));
NewCounter(prev) == 0

\* process_batch_documents_from_urls / _from_file_paths up to block_on, and
\* process_documents_async_* up to join_all(tasks).await: the semaphore
\* size is computed, the format is parsed, the semaphore and the counter
\* are created, then one task per input is spawned, in input order.  A
\* panic unwinds out of the call.
StartBatch(k, n, feats, fmt, rps) ==
    \E size \in SemaphoreSizes(rps, ListLen) :
       IF size = None \/ (IsSome(ParseOutputFormat(fmt)) /\ size[1] > MAX_PERMITS)
       THEN /\ phase' = "panicked"
            /\ UNCHANGED <<process_vars, served, first_admitted, other, arg,
                           operation_location, history, analyze_url, reply_vars,
                           credentials, batch_vars, permits, current_index, pc,
                           holds, old_index, actual_index, posts, gets,
                           join_result, finished, results, py_results, logs>>
       ELSE IF IsSome(ParseOutputFormat(fmt))
       THEN /\ phase' = "running"
            /\ kind' = k
            /\ features' = feats
            /\ output_format' = ParseOutputFormat(fmt)[1]
            /\ max_rps' = UnwrapMaxRps(rps)
            /\ permits' = size[1]
            /\ current_index' = NewCounter(current_index)
            /\ first_admitted' = -1
            /\ finished' = <<>>
            /\ results' = <<>>
            /\ py_results' = <<>>
            /\ pc' = [i \in 0..(n - 1) |-> "waiting"]
            /\ holds' = [i \in 0..(n - 1) |-> FALSE]
            /\ old_index' = [i \in 0..(n - 1) |-> -1]
            /\ actual_index' = [i \in 0..(n - 1) |-> -1]
            /\ posts' = [i \in 0..(n - 1) |-> 0]
            /\ gets' = [i \in 0..(n - 1) |-> 0]
            /\ join_result' = [i \in 0..(n - 1) |-> NoOutcome]
            /\ post_reply' = [i \in 0..(n - 1) |-> "none"]
            /\ poll_reply' = [i \in 0..(n - 1) |-> NoReply]
            /\ analyze_url' = [i \in 0..(n - 1) |-> <<>>]
            /\ operation_location' = [i \in 0..(n - 1) |-> ""]
            /\ history' = [i \in 0..(n - 1) |-> <<>>]
            /\ UNCHANGED <<process_vars, served, other, arg, credentials, logs>>
       ELSE /\ phase' = "raised"
            /\ UNCHANGED <<process_vars, served, first_admitted, other, arg, operation_location, history, analyze_url, reply_vars, credentials, batch_vars, permits, current_index, pc,
                           holds, old_index, actual_index, posts, gets,
                           join_result, finished, results, py_results, logs>>

\* The first batch call on a client.
ProcessBatch(k, n, feats, fmt, rps) ==
    /\ phase = "idle"
    /\ StartBatch(k, n, feats, fmt, rps)

\* A further batch call on the client, made after the one before it
\* returned or raised.
ProcessNextBatch(k, n, feats, fmt, rps) ==
    /\ phase \in {"returned", "raised"}
    /\ served + n <= MaxServed
    /\ StartBatch(k, n, feats, fmt, rps)

\* Mutant: the gate lets a task through although no permit is free.
CanAcquire_Always(free) == TRUE

\* Semaphore::acquire resolves only while a permit is free.
CanAcquire(free) == free > 0

\* let _permit = semaphore.acquire().await.unwrap();
Admit(i) ==
    /\ phase \in Live
    /\ pc[i] = "waiting"
    /\ CanAcquire(permits)
    /\ permits' = permits - 1
    /\ holds' = [holds EXCEPT ![i] = TRUE]
    /\ pc' = [pc EXCEPT ![i] = "admitted"]
    /\ first_admitted' = IF first_admitted = -1 THEN i ELSE first_admitted
    /\ UNCHANGED <<process_vars, served, other, arg, operation_location, history, analyze_url, reply_vars, credentials, phase, batch_vars, current_index, old_index,
                   actual_index, posts, gets, join_result, finished, results,
                   py_results, logs>>

\* Mutant: the permit is given back only when the driver returned Ok.
DropPermit_OnlyOnOk(free, held, tag) == IF held /\ tag = "ok" THEN free + 1 ELSE free

\* Drop of _permit when the task's future completes or unwinds.
DropPermit(free, held, tag) == IF held THEN free + 1 ELSE free

\* The task at position i ends with the given JoinHandle output.
TaskExit(i, out) ==
    /\ pc' = [pc EXCEPT ![i] = "done"]
    /\ join_result' = [join_result EXCEPT ![i] = out]
    /\ permits' = DropPermit(permits, holds[i], out.tag)
    /\ holds' = [holds EXCEPT ![i] = FALSE]
    /\ finished' = Append(finished, i)

\* Mutant: the increment is lost (a load and a store that race).
FetchAdd_Lost(counter) == counter

\* Mutant: the counter stops at its largest value instead of wrapping.
FetchAdd_Saturating(counter) ==
    IF counter = 2 ^ CounterBits - 1 THEN counter ELSE counter + 1

\* index_counter.fetch_add(1, Ordering::Relaxed): the counter afterwards;
\* fetch_add wraps around on overflow.
FetchAdd(counter) == (counter + 1) % (2 ^ CounterBits)

\* Mutant: the index is taken from the counter after the increment.
ActualIndex_AfterIncrement(old, list_len) == (old + 1) % list_len

\* let actual_index = old_index % list_len;
ActualIndex(old, list_len) == old % list_len

\* Mutant: the credential is drawn without waiting for the permit.
AcquireCredential_BeforeGate(i) ==
    /\ phase \in Live
    /\ pc[i] \in {"waiting", "admitted"}
    /\ ListLen > 0
    /\ current_index' = FetchAdd(current_index)
    /\ old_index' = [old_index EXCEPT ![i] = current_index]
    /\ actual_index' = [actual_index EXCEPT ![i] = ActualIndex(current_index, ListLen)]
    /\ pc' = [pc EXCEPT ![i] = IF kind = "file" THEN "opening" ELSE "ready"]
    /\ first_admitted' = IF first_admitted = i THEN -2 ELSE first_admitted
    /\ UNCHANGED <<process_vars, served, other, arg, operation_location, history, analyze_url, reply_vars,
                   credentials, phase, batch_vars, posts, gets, results,
                   py_results, logs, permits, holds, join_result, finished>>

\* fetch_add, the modulo (which panics on a zero divisor) and the clone of
\* the credential.
AcquireCredential(i) ==
    /\ phase \in Live
    /\ pc[i] = "admitted"
    /\ current_index' = FetchAdd(current_index)
    /\ old_index' = [old_index EXCEPT ![i] = current_index]
    /\ IF ListLen = 0
       THEN /\ TaskExit(i, JoinErrOf(JoinErrorText("attempt to calculate the remainder with a divisor of zero")))
            /\ UNCHANGED actual_index
       ELSE /\ actual_index' = [actual_index EXCEPT ![i] = ActualIndex(current_index, ListLen)]
            /\ pc' = [pc EXCEPT ![i] = IF kind = "file" THEN "opening" ELSE "ready"]
            /\ UNCHANGED <<permits, holds, join_result, finished>>
    /\ first_admitted' = IF first_admitted = i THEN -2 ELSE first_admitted
    /\ UNCHANGED <<process_vars, served, other, arg, operation_location, history, analyze_url, reply_vars, credentials, phase, batch_vars, posts, gets, results,
                   py_results, logs>>

\* An entry of a task's history: a file operation, a request as the
\* client sends it, or a sleep.
Event(op, url, key, content_type, secs) ==
    [op |-> op, url |-> url, key |-> key, content_type |-> content_type,
     secs |-> secs]

\* File::open, and read_to_end if the open succeeded.
FileEvents(ok) ==
    IF ok = "open_error"
    THEN <<Event("open", <<>>, "", "", 0)>>
    ELSE <<Event("open", <<>>, "", "", 0), Event("read", <<>>, "", "", 0)>>

\* Mutant: a file that cannot be opened or read is sent as an empty body.
ReadFile_IgnoreError(i, ok) ==
    /\ phase \in Live
    /\ pc[i] = "opening"
    /\ history' = [history EXCEPT ![i] = @ \o FileEvents(ok)]
    /\ pc' = [pc EXCEPT ![i] = "ready"]
    /\ UNCHANGED <<permits, holds, join_result, finished>>
    /\ UNCHANGED <<process_vars, served, first_admitted, other, arg, operation_location, analyze_url, reply_vars, credentials,
                   phase, batch_vars, current_index, old_index,
                   actual_index, posts, gets, results, py_results, logs>>

\* analyze_document_from_file_path: File::open and read_to_end.
ReadFile(i, ok) ==
    /\ phase \in Live
    /\ pc[i] = "opening"
    /\ history' = [history EXCEPT ![i] = @ \o FileEvents(ok)]
    /\ IF ok = "ok"
       THEN /\ pc' = [pc EXCEPT ![i] = "ready"]
            /\ UNCHANGED <<permits, holds, join_result, finished>>
       ELSE IF ok = "open_error"
       THEN TaskExit(i, ErrOf(OpenErrorText(ItemText(i), IoErrorCause)))
       ELSE TaskExit(i, ErrOf(ReadErrorText(ItemText(i), IoErrorCause)))
    /\ UNCHANGED <<process_vars, served, first_admitted, other, arg, operation_location, analyze_url, reply_vars, credentials,
                   phase, batch_vars, current_index, old_index,
                   actual_index, posts, gets, results, py_results, logs>>

\* The credential the task at position i cloned.
CredsOf(i) == credentials[actual_index[i]]

\* analyze_url as the driver of the batch's kind builds it.
UrlOf(i) ==
    IF kind = "file"
    THEN AnalyzeUrlFromFilePath(CredsOf(i), ModelId, output_format, features)
    ELSE AnalyzeUrl(CredsOf(i), ModelId, output_format, features)

\* file_path of the item at position i, split at its separators and dots.
FilePathParts(i) ==
    IF DOMAIN arg = {}
    THEN <<"/", "data", "/", "doc" \o ToString(i), ".", "pdf">>
    ELSE arg.file_path

\* Mutant: every task sends the key of the first credential of the list.
AuthHeaderValue_First(i) == credentials[0].api_key.secret

\* The value of the Ocp-Apim-Subscription-Key header: auth_header_value.
AuthHeaderValue(i) == CredsOf(i).api_key.secret

\* client.post(&analyze_url) with its headers.
PostRequest(i) ==
    Event("POST", UrlOf(i), AuthHeaderValue(i),
          IF kind = "file" THEN get_content_type(FilePathParts(i))
          ELSE "application/json", 0)

\* Mutant: the poll goes to the URL the document was submitted to.
GetRequest_AnalyzeUrl(i) ==
    Event("GET", analyze_url[i], AuthHeaderValue(i), "", 0)

\* client.get(operation_location) with its header.
GetRequest(i) ==
    Event("GET", <<operation_location[i]>>, AuthHeaderValue(i), "", 0)

\* Mutant: the wait grows with the number of polls made (backoff).
SleepSecs_Backoff(n) == n + 1

\* tokio::time::sleep(Duration::from_secs(1)) before poll number n + 1.
SleepSecs(n) == 1

SleepEvent(secs) == Event("sleep", <<>>, "", "", secs)

\* Mutant: a response without the header is taken as accepted.
PostOutcome_HeaderOptional(i, reply) ==
    CASE reply = "transport_error" -> ErrOf(SendErrorText(UrlOf(i)))
      [] reply = "http_error" -> ErrOf(StatusErrorText(HttpErrorCode, UrlOf(i)))
      [] reply = "bad_header" -> ErrOf(ToStrErrorText)
      [] OTHER -> NoOutcome

\* What the driver returns on the answer to its POST: send()?,
\* error_for_status()?, headers().get(..).ok_or_else(..)?, to_str()?.
\* NoOutcome: the driver goes on to the polling loop.
PostOutcome(i, reply) ==
    CASE reply = "transport_error" -> ErrOf(SendErrorText(UrlOf(i)))
      [] reply = "http_error" -> ErrOf(StatusErrorText(HttpErrorCode, UrlOf(i)))
      [] reply = "no_header" -> ErrOf(MissingHeaderText)
      [] reply = "bad_header" -> ErrOf(ToStrErrorText)
      [] OTHER -> NoOutcome

\* Mutant: "succeeded" is a success whether or not a result came with it.
MatchStatus_OkWithoutResult(status, result) ==
    IF status = "succeeded"
    THEN OkOf(IF IsSome(result) THEN result[1] ELSE NoPayload)
    ELSE IF status = "failed"
    THEN ErrOf(AnalysisFailedText)
    ELSE IF status \in {"running", "notStarted"}
    THEN NoOutcome
    ELSE ErrOf(UnknownStatusText(status))

\* Mutant: the status is matched without regard to letter case.
MatchStatus_IgnoreCase(status, result) ==
    IF status = "succeeded"
    THEN (IF IsSome(result) THEN OkOf(result[1]) ELSE ErrOf(NoResultText))
    ELSE IF status = "failed"
    THEN ErrOf(AnalysisFailedText)
    ELSE IF status \in {"running", "notStarted", "Running"}
    THEN NoOutcome
    ELSE ErrOf(UnknownStatusText(status))

\* match status_response.status.as_str(): the value the driver returns,
\* or NoOutcome for `continue`.
MatchStatus(status, result) ==
    IF status = "succeeded"
    THEN (IF IsSome(result) THEN OkOf(result[1]) ELSE ErrOf(NoResultText))
    ELSE IF status = "failed"
    THEN ErrOf(AnalysisFailedText)
    ELSE IF status \in {"running", "notStarted"}
    THEN NoOutcome
    ELSE ErrOf(UnknownStatusText(status))

\* Mutant: a transport error of a poll is swallowed and the loop goes on.
PollOutcome_RetryTransport(i, reply) ==
    CASE reply.kind = "transport_error" -> NoOutcome
      [] reply.kind = "http_error" -> ErrOf(StatusErrorText(HttpErrorCode, <<OpLoc(i)>>))
      [] reply.kind = "bad_body" -> ErrOf(DecodeErrorText)
      [] OTHER -> MatchStatus(reply.status, reply.result)

\* What the driver returns on the answer to a GET: send()?,
\* error_for_status()?, json::<StatusResponse>()?, then the match.
PollOutcome(i, reply) ==
    CASE reply.kind = "transport_error" -> ErrOf(SendErrorText(<<OpLoc(i)>>))
      [] reply.kind = "http_error" -> ErrOf(StatusErrorText(HttpErrorCode, <<OpLoc(i)>>))
      [] reply.kind = "bad_body" -> ErrOf(DecodeErrorText)
      [] OTHER -> MatchStatus(reply.status, reply.result)

\* Both drivers from the URL build to the send of the POST.
Submit(i) ==
    /\ phase \in Live
    /\ pc[i] = "ready"
    /\ analyze_url' = [analyze_url EXCEPT ![i] = UrlOf(i)]
    /\ IF CredsOf(i).api_key.header_ok
       THEN /\ posts' = [posts EXCEPT ![i] = @ + 1]
            /\ history' = [history EXCEPT ![i] = Append(@, PostRequest(i))]
            /\ pc' = [pc EXCEPT ![i] = "submitting"]
            /\ UNCHANGED <<permits, holds, join_result, finished>>
       ELSE /\ TaskExit(i, ErrOf(InvalidHeaderValueText(CredsOf(i).api_key)))
            /\ UNCHANGED <<posts, history>>
    /\ UNCHANGED <<process_vars, served, first_admitted, other, arg, operation_location, reply_vars, credentials, phase, batch_vars, current_index, old_index,
                   actual_index, gets, results, py_results, logs>>

\* The info! events after an accepted submission.
SubmitEvents(i) ==
    IF kind = "url"
    THEN {<<"document_url=", ItemText(i), "Operation Location: ", OpLoc(i)>>}
    ELSE {<<"file_name=", FileName(i), "status_code=", "202",
            "Document analysis request submitted">>,
          <<"file_name=", FileName(i), "operation_location=", OpLoc(i),
            "Document analysis operation initiated">>}

\* The answer to the POST: send()?, error_for_status()?, the
\* operation-location header, then the first sleep.
PostResponse(i, reply) ==
    /\ phase \in Live
    /\ pc[i] = "submitting"
    /\ post_reply' = [post_reply EXCEPT ![i] = reply]
    /\ IF PostOutcome(i, reply) = NoOutcome
       THEN /\ pc' = [pc EXCEPT ![i] = "sleeping"]
            /\ operation_location' = [operation_location EXCEPT ![i] = OpLoc(i)]
            /\ logs' = Emit(logs, SubmitEvents(i))
            /\ UNCHANGED <<permits, holds, join_result, finished>>
       ELSE /\ TaskExit(i, PostOutcome(i, reply))
            /\ UNCHANGED operation_location
            /\ logs' = IF kind = "file" /\ reply \notin {"transport_error", "http_error"}
                       THEN Emit(logs, {<<"file_name=", FileName(i), "status_code=", "202",
                                          "Document analysis request submitted">>})
                       ELSE logs
    /\ UNCHANGED <<process_vars, served, first_admitted, other, arg, history, analyze_url, poll_reply, credentials, phase, batch_vars,
                   current_index, old_index, actual_index, posts, gets,
                   results, py_results>>

\* tokio::time::sleep(Duration::from_secs(1)) elapses and the GET is sent.
Poll(i) ==
    /\ phase \in Live
    /\ pc[i] = "sleeping"
    /\ gets' = [gets EXCEPT ![i] = @ + 1]
    /\ history' = [history EXCEPT ![i] =
            @ \o <<SleepEvent(SleepSecs(gets[i])), GetRequest(i)>>]
    /\ pc' = [pc EXCEPT ![i] = "polling"]
    /\ UNCHANGED <<process_vars, served, first_admitted, other, arg, operation_location, analyze_url, reply_vars, credentials, phase, batch_vars, permits, current_index, holds,
                   old_index, actual_index, posts, join_result, finished,
                   results, py_results, logs>>

\* The info! event after a parsed poll body.
PollEvent(i, status) ==
    IF kind = "url"
    THEN <<"status=", status, "Polling status response: ", status>>
    ELSE <<"file_name=", FileName(i), "status=", status,
           "operation_location=", OpLoc(i), "Polling document analysis status">>

\* The answer to a GET: send()?, error_for_status()?, json()?, the event
\* and the match on the status.  The service answers at most MaxPolls
\* polls of an operation with a non-terminal status.
PollResponse(i, reply) ==
    /\ phase \in Live
    /\ pc[i] = "polling"
    /\ reply \in PollReplies(i)
    /\ poll_reply' = [poll_reply EXCEPT ![i] = reply]
    /\ logs' = IF reply.kind = "body" THEN Emit(logs, {PollEvent(i, reply.status)}) ELSE logs
    /\ IF PollOutcome(i, reply) = NoOutcome
       THEN /\ gets[i] <= MaxPolls
            /\ pc' = [pc EXCEPT ![i] = "sleeping"]
            /\ UNCHANGED <<permits, holds, join_result, finished>>
       ELSE TaskExit(i, PollOutcome(i, reply))
    /\ UNCHANGED <<process_vars, served, first_admitted, other, arg, operation_location, history, analyze_url, post_reply, credentials, phase, batch_vars,
                   current_index, old_index, actual_index, posts, gets,
                   results, py_results>>

\* The task unwinds instead of returning: its JoinHandle yields a JoinError.
TaskPanic(i) ==
    /\ phase \in Live
    /\ pc[i] \in InFlight
    /\ TaskExit(i, JoinErrOf(JoinErrorText("panic")))
    /\ first_admitted' = IF first_admitted = i THEN -2 ELSE first_admitted
    /\ UNCHANGED <<process_vars, served, other, arg, operation_location, history, analyze_url, reply_vars, credentials, phase, batch_vars, current_index, old_index,
                   actual_index, posts, gets, results, py_results, logs>>

\* Mutant: the outputs are collected as the tasks end (FuturesUnordered).
CollectResults_ByCompletion(outs, order) ==
    [i \in DOMAIN outs |-> MapJoinResult(outs[order[i + 1]])]

\* Mutant: the first failed output replaces the whole batch (try_join_all).
CollectResults_FailFast(outs, order) ==
    IF \E j \in DOMAIN outs : outs[j].tag # "ok"
    THEN [i \in DOMAIN outs |->
            MapJoinResult(outs[CHOOSE j \in DOMAIN outs :
                /\ outs[j].tag # "ok"
                /\ \A l \in DOMAIN outs : outs[l].tag # "ok" => j <= l])]
    ELSE [i \in DOMAIN outs |-> MapJoinResult(outs[i])]

\* join_all(tasks): the outputs in the order of the handles it was given.
CollectResults(outs, order) == [i \in DOMAIN outs |-> MapJoinResult(outs[i])]

\* Mutant: a failed item is propagated with `?` and fails the whole call.
JoinAll_Propagate ==
    /\ phase = "running"
    /\ \A i \in Items : pc[i] = "done"
    /\ IF \E i \in Items : join_result[i].tag # "ok"
       THEN /\ phase' = "raised"
            /\ UNCHANGED <<results, py_results>>
       ELSE /\ results' = [i \in Items |-> MapJoinResult(join_result[i])]
            /\ py_results' = [i \in DOMAIN results' |-> ToPyResult(results'[i])]
            /\ phase' = "returned"
    /\ UNCHANGED <<process_vars, served, first_admitted, other, arg, operation_location, history, analyze_url, reply_vars, credentials, batch_vars, permits, current_index, pc, holds,
                   old_index, actual_index, posts, gets, join_result, finished,
                   logs>>

\* join_all(tasks).await resolves once every handle has, the outputs are
\* mapped and collected, block_on returns and the conversion loop runs.
JoinAll ==
    /\ phase = "running"
    /\ \A i \in Items : pc[i] = "done"
    /\ results' = CollectResults(join_result, finished)
    /\ py_results' = [i \in DOMAIN results' |-> ToPyResult(results'[i])]
    /\ phase' = "returned"
    /\ served' = served + Cardinality(Items)
    /\ UNCHANGED <<process_vars, first_admitted, other, arg, operation_location, history, analyze_url, reply_vars, credentials, batch_vars, permits, current_index, pc, holds,
                   old_index, actual_index, posts, gets, join_result, finished,
                   logs>>

\* The future of process_documents_async_* is dropped at its await: the
\* JoinHandles are dropped, which detaches the spawned tasks.
Cancel ==
    /\ phase = "running"
    /\ \E i \in Items : pc[i] # "done"
    /\ phase' = "cancelled"
    /\ UNCHANGED <<process_vars, served, first_admitted, other, arg, operation_location, history, analyze_url, reply_vars, credentials, batch_vars, permits, current_index, pc, holds,
                   old_index, actual_index, posts, gets, join_result, finished,
                   results, py_results, logs>>

\* What happens between the spawn of the tasks and the return of the call.
TaskStep ==
    \/ \E i \in Items : Admit(i)
    \/ \E i \in Items : AcquireCredential(i)
    \/ \E i \in Items, ok \in {"ok", "open_error", "read_error"} : ReadFile(i, ok)
    \/ \E i \in Items : Submit(i)
    \/ \E i \in Items, reply \in PostReplies : PostResponse(i, reply)
    \/ \E i \in Items : Poll(i)
    \/ \E i \in Items : \E reply \in PollReplies(i) : PollResponse(i, reply)
    \/ \E i \in Items : TaskPanic(i)
    \/ JoinAll
    \/ Cancel

Next ==
    \/ \E k \in {"url", "file"}, n \in 0..MaxItems, opts \in OptionInputs,
          rps \in {None} \cup {Some(r) : r \in 0..MaxRps} :
            ProcessBatch(k, n, opts.features, opts.output_format, rps)
    \/ TaskStep

Spec == Init /\ [][Next]_vars

\* What the runtime and the service are bound to do: a task that can
\* take a step is scheduled, a request is answered, a resolved join_all
\* returns.  Neither a panic nor a drop of the batch future is owed.
Progress ==
    \/ \E i \in Items : Admit(i)
    \/ \E i \in Items : AcquireCredential(i)
    \/ \E i \in Items, ok \in {"ok", "open_error", "read_error"} : ReadFile(i, ok)
    \/ \E i \in Items : Submit(i)
    \/ \E i \in Items, reply \in PostReplies : PostResponse(i, reply)
    \/ \E i \in Items : Poll(i)
    \/ \E i \in Items : \E reply \in PollReplies(i) : PollResponse(i, reply)
    \/ JoinAll

FairSpec == Spec /\ WF_vars(Progress)

\* ------------------------------------------- one call, arguments varied
\* A client with one credential is given one item; the endpoint, features
\* and output_format arguments range over the sets below.
Pads == UNION {[1..k -> Whitespace] : k \in 0..MaxPad}

FormatWords ==
    {<<"t", "e", "x", "t">>, <<"T", "E", "X", "T">>, <<"T", "e", "x", "T">>,
     <<"m", "a", "r", "k", "d", "o", "w", "n">>,
     <<"M", "A", "R", "K", "D", "O", "W", "N">>,
     <<"M", "a", "r", "k", "D", "o", "w", "n">>,
     <<>>, <<"p", "d", "f">>, <<"t", "e", "x">>, <<"t", "e", " ", "x", "t">>,
     <<"t", "e", "x", "t", "x">>, <<"m", "d">>}

\* output_format: Option<String>
FormatInputs ==
    {None} \cup {Some(l \o w \o r) : l \in Pads, r \in Pads, w \in FormatWords}

EndpointBodies ==
    {<<"https:", "/", "/", "host">>,
     <<"https:", "/", "/", "host", "/", "path">>,
     <<>>}

\* Credentials.endpoint: String
EndpointInputs ==
    {b \o [k \in 1..n |-> "/"] : b \in EndpointBodies, n \in 0..MaxSlashes}

FeatureNames == {"ocrHighResolution", "formulas", "languages"}

\* features: Option<Vec<String>>
FeatureInputs ==
    {None, Some(<<>>)}
    \cup {Some(<<f>>) : f \in FeatureNames}
    \cup {Some(<<p[1], p[2]>>) :
            p \in {q \in FeatureNames \X FeatureNames : q[1] # q[2]}}

Extensions ==
    {"pdf", "jpg", "jpeg", "png", "tiff", "tif", "bmp",
     "PDF", "Pdf", "JPG", "JPEG", "PNG", "TIFF", "TIF", "BMP",
     "gif", "txt", "docx", "pn", "pngx"}

\* The last component of a file path.
NameInputs ==
    {<<"x", ".", e>> : e \in Extensions}
    \cup {<<"x">>, <<"x", ".">>, <<".", "png">>, <<"png">>,
          <<"x", ".", "tar", ".", "png">>, <<"x", ".", "png", ".", "bak">>,
          <<"x", ".", "PNG", ".", "pdf">>}

\* file_path: String
PathInputs ==
    {d \o n : d \in {<<>>, <<"/", "tmp", "/">>, <<"/", "tmp", ".", "png", "/">>},
              n \in NameInputs}

DefaultPath == <<"/", "tmp", "/", "x", ".", "pdf">>

ArgInputs ==
    {[endpoint |-> <<"https:", "/", "/", "host", "/">>, features |-> None,
      output_format |-> f, file_path |-> DefaultPath] : f \in FormatInputs}
    \cup {[endpoint |-> e, features |-> fs, output_format |-> f,
           file_path |-> DefaultPath] :
            e \in EndpointInputs, fs \in FeatureInputs,
            f \in {None, Some(<<"M", "a", "r", "k", "D", "o", "w", "n">>)}}
    \cup {[endpoint |-> <<"https:", "/", "/", "host", "/">>, features |-> None,
           output_format |-> None, file_path |-> p] : p \in PathInputs}

ArgInit ==
    /\ arg \in ArgInputs
    /\ credentials = [c \in {0} |->
            [Credentials(0, TRUE) EXCEPT !.endpoint = arg.endpoint]]
    /\ Idle

\* The call is made with one item and max_rps left to its default.
ArgCall ==
    \E k \in {"url", "file"} :
        ProcessBatch(k, 1, arg.features, arg.output_format, None)

ArgNext == ArgCall \/ TaskStep

ArgSpec == ArgInit /\ [][ArgNext]_vars

\* ------------------------------------------------- batch after batch
\* Batch calls made one after the other on the same client, with the
\* optional arguments left to their defaults.
SeqCall ==
    \E k \in {"url", "file"}, n \in 0..MaxItems :
        \/ ProcessBatch(k, n, None, None, None)
        \/ ProcessNextBatch(k, n, None, None, None)

SeqNext == SeqCall \/ TaskStep

\* One client over a non-empty list of usable credentials, constructed
\* with enable_logs = False in a process that has no subscriber.
SeqInit ==
    /\ \E k \in 1..MaxCreds :
          credentials = [c \in 0..(k - 1) |-> Credentials(c, TRUE)]
    /\ arg = <<>>
    /\ phase = "idle"
    /\ kind = "url"
    /\ features = None
    /\ output_format = ""
    /\ max_rps = 0
    /\ permits = 0
    /\ current_index = 0
    /\ pc = <<>> /\ holds = <<>> /\ old_index = <<>> /\ actual_index = <<>>
    /\ posts = <<>> /\ gets = <<>> /\ join_result = <<>>
    /\ post_reply = <<>> /\ poll_reply = <<>>
    /\ analyze_url = <<>> /\ operation_location = <<>> /\ history = <<>>
    /\ finished = <<>> /\ results = <<>> /\ py_results = <<>>
    /\ logs = {}
    /\ served = 0
    /\ first_admitted = -1
    /\ other = <<>>
    /\ TRACING_INIT = None
    /\ global_default = "none"
    /\ installs = 0
    /\ constructed = <<FALSE>>

SeqSpec == SeqInit /\ [][SeqNext]_vars

\* ------------------------------------------- two batch calls at once
\* py.detach releases the interpreter lock for the length of block_on, so
\* a second thread can call a batch method of the same client while the
\* first call runs.  The second call runs the same code on locals of its
\* own, kept in the record `other`; each of its tasks is followed from the
\* gate to the end of its driver in one step.
OtherItem(j) == MaxItems + j

OtherTasks == IF other = <<>> THEN {} ELSE DOMAIN other.pc

OtherFrame ==
    UNCHANGED <<process_vars, served, first_admitted, arg, operation_location,
                history, analyze_url, reply_vars, credentials, phase,
                batch_vars, permits, current_index, pc, holds, old_index,
                actual_index, posts, gets, join_result, finished, results,
                py_results, logs>>

\* The second call up to join_all(tasks).await: its own Semaphore and
\* AtomicUsize are created and one task per input is spawned.
OtherCall(n, rps) ==
    /\ phase = "running"
    /\ other = <<>>
    /\ other' = [phase |-> "running",
                 max_rps |-> UnwrapMaxRps(rps),
                 permits |-> SemaphoreSize(rps, ListLen),
                 current_index |-> NewCounter(current_index),
                 pc |-> [j \in 0..(n - 1) |-> "waiting"],
                 holds |-> [j \in 0..(n - 1) |-> FALSE],
                 actual_index |-> [j \in 0..(n - 1) |-> -1],
                 join_result |-> [j \in 0..(n - 1) |-> NoOutcome],
                 results |-> <<>>]
    /\ OtherFrame

\* Mutant: the semaphore is a field of the client, shared by its calls.
OtherAdmit_ClientGate(j) ==
    /\ other # <<>>
    /\ other.phase = "running"
    /\ other.pc[j] = "waiting"
    /\ CanAcquire(permits)
    /\ permits' = permits - 1
    /\ other' = [other EXCEPT !.holds[j] = TRUE, !.pc[j] = "admitted"]
    /\ UNCHANGED <<process_vars, served, first_admitted, arg, operation_location,
                   history, analyze_url, reply_vars, credentials, phase,
                   batch_vars, current_index, pc, holds, old_index,
                   actual_index, posts, gets, join_result, finished, results,
                   py_results, logs>>

\* let _permit = semaphore.acquire().await.unwrap(); in a task of the
\* second call.
OtherAdmit(j) ==
    /\ other # <<>>
    /\ other.phase = "running"
    /\ other.pc[j] = "waiting"
    /\ CanAcquire(other.permits)
    /\ other' = [other EXCEPT !.permits = @ - 1, !.holds[j] = TRUE,
                              !.pc[j] = "admitted"]
    /\ OtherFrame

\* What a driver of the second call can return for its item.
OtherOutcomes(j) ==
    {OkOf(Payload(OtherItem(j), TRUE)), ErrOf(AnalysisFailedText)}

\* fetch_add, the clone of the credential and the driver, to the point
\* where the task of the second call returns and drops its permit.
OtherRun(j, out) ==
    /\ other # <<>>
    /\ other.phase = "running"
    /\ other.pc[j] = "admitted"
    /\ ListLen > 0
    /\ other' = [other EXCEPT
            !.current_index = FetchAdd(@),
            !.actual_index[j] = ActualIndex(other.current_index, ListLen),
            !.join_result[j] = out,
            !.permits = DropPermit(@, other.holds[j], out.tag),
            !.holds[j] = FALSE,
            !.pc[j] = "done"]
    /\ OtherFrame

\* join_all(tasks).await of the second call.
OtherJoin ==
    /\ other # <<>>
    /\ other.phase = "running"
    /\ \A j \in OtherTasks : other.pc[j] = "done"
    /\ other' = [other EXCEPT
            !.results = [j \in OtherTasks |-> MapJoinResult(other.join_result[j])],
            !.phase = "returned"]
    /\ OtherFrame

OtherStep ==
    \/ \E n \in 1..MaxItems : OtherCall(n, Some(MaxRps))
    \/ \E j \in OtherTasks : OtherAdmit(j)
    \/ \E j \in OtherTasks : \E out \in OtherOutcomes(j) : OtherRun(j, out)
    \/ OtherJoin

\* The first call is given MaxItems files and max_rps = MaxRps.
PairCall == ProcessBatch("file", MaxItems, None, None, Some(MaxRps))

PairNext == PairCall \/ TaskStep \/ OtherStep

PairSpec == SeqInit /\ [][PairNext]_vars

\* ------------------------------------------------ semaphore size
\* max_rps: Option<usize>, from the smallest to the largest usize.
RpsInputs ==
    {None} \cup {Some(r) : r \in {0, 1, MAX_PERMITS, MAX_PERMITS + 1,
                                  2 ^ (UsizeBits - 1), 2 ^ UsizeBits - 1}}

\* A batch call of one item with any max_rps.
SizeCall ==
    \E k \in {"url", "file"}, rps \in RpsInputs :
        ProcessBatch(k, 1, None, None, rps)

SizeNext == SizeCall \/ TaskStep

SizeSpec == SeqInit /\ [][SizeNext]_vars

\* ------------------------------------------------------ construction
\* Mutant: the subscriber is installed by every call, without the cell.
init_tracing_EveryCall(cell, default) ==
    IF default = "none"
    THEN [cell |-> cell, default |-> "fmt", set |-> TRUE, panicked |-> FALSE]
    ELSE [cell |-> cell, default |-> default, set |-> FALSE, panicked |-> TRUE]

\* utils::logger::init_tracing: get_or_init runs the closure only while
\* the cell is empty; set_global_default fails when a default is already
\* set, expect then panics and the cell stays empty.
init_tracing(cell, default) ==
    IF IsSome(cell)
    THEN [cell |-> cell, default |-> default, set |-> FALSE, panicked |-> FALSE]
    ELSE IF default = "none"
    THEN [cell |-> Some("()"), default |-> "fmt", set |-> TRUE, panicked |-> FALSE]
    ELSE [cell |-> cell, default |-> default, set |-> FALSE, panicked |-> TRUE]

\* RustyAnalysisClient::new(credentials, enable_logs), called while no
\* batch call is running; the model goes on with the new client.
New(k, enable_logs) ==
    /\ phase \in {"no_client", "new_panicked", "idle", "raised", "panicked",
                   "returned"}
    /\ Len(constructed) < MaxClients
    /\ LET r == IF enable_logs
                THEN init_tracing(TRACING_INIT, global_default)
                ELSE [cell |-> TRACING_INIT, default |-> global_default,
                      set |-> FALSE, panicked |-> FALSE]
       IN  /\ TRACING_INIT' = r.cell
           /\ global_default' = r.default
           /\ installs' = IF r.set THEN installs + 1 ELSE installs
           /\ IF r.panicked
              THEN /\ phase' = "new_panicked"
                   /\ UNCHANGED <<constructed, credentials, batch_vars, permits,
                                  current_index, pc, holds, old_index,
                                  actual_index, posts, gets, join_result,
                                  finished, results, py_results, reply_vars,
                                  analyze_url, operation_location, history,
                                  served, first_admitted>>
              ELSE /\ phase' = "idle"
                   /\ constructed' = Append(constructed, enable_logs)
                   /\ credentials' = [c \in 0..(k - 1) |-> Credentials(c, TRUE)]
                   /\ kind' = "url"
                   /\ features' = None
                   /\ output_format' = ""
                   /\ max_rps' = 0
                   /\ permits' = 0
                   /\ current_index' = 0
                   /\ pc' = <<>> /\ holds' = <<>>
                   /\ old_index' = <<>> /\ actual_index' = <<>>
                   /\ posts' = <<>> /\ gets' = <<>>
                   /\ join_result' = <<>> /\ finished' = <<>>
                   /\ results' = <<>> /\ py_results' = <<>>
                   /\ post_reply' = <<>> /\ poll_reply' = <<>>
                   /\ analyze_url' = <<>> /\ operation_location' = <<>>
                   /\ history' = <<>>
                   /\ served' = 0
                   /\ first_admitted' = -1
    /\ UNCHANGED <<arg, other, logs>>

\* The process before any client is constructed.
LogInit ==
    /\ credentials = <<>>
    /\ arg = <<>>
    /\ phase = "no_client"
    /\ kind = "url"
    /\ features = None
    /\ output_format = ""
    /\ max_rps = 0
    /\ permits = 0
    /\ current_index = 0
    /\ pc = <<>> /\ holds = <<>> /\ old_index = <<>> /\ actual_index = <<>>
    /\ posts = <<>> /\ gets = <<>> /\ join_result = <<>>
    /\ post_reply = <<>> /\ poll_reply = <<>>
    /\ analyze_url = <<>> /\ operation_location = <<>> /\ history = <<>>
    /\ finished = <<>> /\ results = <<>> /\ py_results = <<>>
    /\ logs = {}
    /\ served = 0
    /\ first_admitted = -1
    /\ other = <<>>
    /\ TRACING_INIT = None
    /\ global_default = "none"
    /\ installs = 0
    /\ constructed = <<>>

\* A batch call of one item on the newest client.
LogCall == \E k \in {"url", "file"} : ProcessBatch(k, 1, None, None, None)

LogNext ==
    \/ \E k \in 1..MaxCreds, enable_logs \in BOOLEAN : New(k, enable_logs)
    \/ LogCall
    \/ TaskStep

LogSpec == LogInit /\ [][LogNext]_vars

\* ---------------------------------------------------- counter near its end
\* A batch longer than the range of the counter, at the point where its
\* last MaxItems tasks have been spawned and wait at the gate: the tasks
\* before them have drawn their values and ended, leaving the counter at
\* any value of its range.
CounterInit ==
    /\ \E k \in 0..MaxCreds :
          /\ credentials = [c \in 0..(k - 1) |-> Credentials(c, TRUE)]
          /\ permits = SemaphoreSize(Some(MaxRps), k)
    /\ arg = <<>>
    /\ phase = "running"
    /\ kind \in {"url", "file"}
    /\ features = None
    /\ output_format = ParseOutputFormat(None)[1]
    /\ max_rps = UnwrapMaxRps(Some(MaxRps))
    /\ current_index \in 0..(2 ^ CounterBits - 1)
    /\ pc = [i \in 0..(MaxItems - 1) |-> "waiting"]
    /\ holds = [i \in 0..(MaxItems - 1) |-> FALSE]
    /\ old_index = [i \in 0..(MaxItems - 1) |-> -1]
    /\ actual_index = [i \in 0..(MaxItems - 1) |-> -1]
    /\ posts = [i \in 0..(MaxItems - 1) |-> 0]
    /\ gets = [i \in 0..(MaxItems - 1) |-> 0]
    /\ join_result = [i \in 0..(MaxItems - 1) |-> NoOutcome]
    /\ post_reply = [i \in 0..(MaxItems - 1) |-> "none"]
    /\ poll_reply = [i \in 0..(MaxItems - 1) |-> NoReply]
    /\ analyze_url = [i \in 0..(MaxItems - 1) |-> <<>>]
    /\ operation_location = [i \in 0..(MaxItems - 1) |-> ""]
    /\ history = [i \in 0..(MaxItems - 1) |-> <<>>]
    /\ finished = <<>>
    /\ results = <<>>
    /\ py_results = <<>>
    /\ logs = {}
    /\ served = 0
    /\ first_admitted = -2
    /\ other = <<>>
    /\ TRACING_INIT = Some("()")
    /\ global_default = "fmt"
    /\ installs = 1
    /\ constructed = <<TRUE>>

CounterSpec == CounterInit /\ [][TaskStep]_vars

\* ------------------------------------------------------------ properties
Capacity == max_rps * ListLen

PastGate == {i \in Items : pc[i] \in InFlight}

Failed(i) == pc[i] = "done" /\ join_result[i].tag # "ok"

Atoms(msg) == Range(msg)

\* The text s without its leading and trailing whitespace, said without
\* recursion: the stretch from its first to its last other character.
Core(s) ==
    LET solid == {k \in 1..Len(s) : s[k] \notin Whitespace}
    IN  IF solid = {} THEN <<>>
        ELSE SubSeq(s, CHOOSE k \in solid : \A j \in solid : k <= j,
                       CHOOSE k \in solid : \A j \in solid : j <= k)

\* s spells the lower-case word but for the case of its letters.
SpellsIgnoringCase(s, word) ==
    /\ Len(s) = Len(word)
    /\ \A k \in 1..Len(s) :
          \E j \in 1..Len(LowerChars) :
              word[k] = LowerChars[j] /\ s[k] \in {LowerChars[j], UpperChars[j]}

Denotes(s, word) == SpellsIgnoringCase(Core(s), word)

\* The part of a submission URL in front of the fixed path.
UrlBase(url) ==
    SubSeq(url, 1, (CHOOSE k \in 1..Len(url) :
                        url[k] = "/documentintelligence/documentModels/") - 1)

\* The atoms that open a query parameter, and the value that follows key.
ParamKeys == {":analyze?api-version=", "&outputContentFormat=", "&features="}

QueryValue(url, key) ==
    LET k == CHOOSE k \in 1..Len(url) : url[k] = key
        later == {j \in (k + 1)..Len(url) : url[j] \in ParamKeys}
        last == IF later = {} THEN Len(url)
                ELSE (CHOOSE j \in later : \A l \in later : j <= l) - 1
    IN  SubSeq(url, k + 1, last)

\* The positions of a history that hold an entry of the given kind.
At(h, op) == {k \in 1..Len(h) : h[k].op = op}

Secrets == {credentials[c].api_key.secret : c \in DOMAIN credentials}

\* C1: when the batch call returns, the list has one element per input
\* and the element at position i is the mapped outcome of the task that
\* was started for input i; a success at position i carries the payload
\* the service produced for item i.
C1_PositionPreserved ==
    phase = "returned" =>
        /\ DOMAIN results = Items
        /\ \A i \in Items :
              /\ results[i] = MapJoinResult(join_result[i])
              /\ results[i].tag = "ok" => results[i].val.item = i

\* C1 witness: two tasks ended in the reverse of input order with
\* different outcomes, and the call returned.
C1_Witness ==
    /\ phase = "returned"
    /\ finished = <<1, 0>>
    /\ results[0].tag = "ok"
    /\ results[1].tag = "err"

\* C2: the number of tasks past the gate and not yet ended never exceeds
\* max_rps * K, and a task holds its permit exactly while it is there.
C2_ConcurrencyCap ==
    /\ Cardinality(PastGate) <= Capacity
    /\ \A i \in Items : holds[i] <=> pc[i] \in InFlight

\* C2 witness: the gate is full (one task inside, in flight with the
\* service) and another task is kept waiting.
C2_Witness ==
    /\ Capacity = 1
    /\ Cardinality(PastGate) = 1
    /\ \E i \in Items : pc[i] = "polling"
    /\ \E i \in Items : pc[i] = "waiting"

C4_FailureIsolation ==
    [][/\ \A i \in Items :
            (pc[i] # "done" /\ pc'[i] = "done" /\ join_result'[i].tag # "ok") =>
                \A j \in Items \ {i} :
                    pc'[j] = pc[j] /\ join_result'[j] = join_result[j]
       /\ (phase = "running" /\ phase' = "returned") =>
            /\ {i \in DOMAIN results' : results'[i].tag = "err"}
                  = {i \in Items : Failed(i)}
            /\ {i \in DOMAIN results' : results'[i].tag = "ok"}
                  = {i \in Items : ~Failed(i)}]_vars

\* C4 witness: a returned batch of two with exactly one failed item.
C4_Witness ==
    /\ phase = "returned"
    /\ DOMAIN results = {0, 1}
    /\ results[0].tag = "err"
    /\ results[1].tag = "ok"
    /\ finished = <<0, 1>>

\* C5: every failed task is an error descriptor at its position, handed
\* to the caller as an exception object in the list, and the call raises
\* only before any task was spawned.
C5_ErrorsBecomeDescriptors ==
    /\ phase = "returned" =>
          \A i \in Items :
              Failed(i) =>
                  /\ results[i].tag = "err"
                  /\ py_results[i].tag = "exception"
                  /\ py_results[i].msg = results[i].msg
    /\ phase = "raised" => Items = {}
    /\ (phase = "running" /\ \A i \in Items : pc[i] = "done") => ENABLED JoinAll

\* C5 witness: the call returned although every item failed, one by a
\* driver error and one by a panic.
C5_Witness ==
    /\ phase = "returned"
    /\ DOMAIN results = {0, 1}
    /\ join_result[0].tag = "err"
    /\ join_result[1].tag = "join_err"

\* C6: a dispatched batch call eventually returns (unless its caller
\* dropped it), whatever client and max_rps it was given.
C6_BatchReturns == (phase = "running") ~> (phase \in {"returned", "cancelled"})

\* C7: no task is ever spawned against an empty credential list.
C7_EmptyCredentialsRejected == ListLen = 0 => Items = {}

\* C8: once the batch call is cancelled no task of it sends a further
\* request.
C8_CancelStopsTasks ==
    [][phase = "cancelled" => (posts' = posts /\ gets' = gets)]_vars

\* C9: an ended task holds no permit, free and held permits always add up
\* to the capacity, and when the call returns every permit is free.
C9_PermitReleased ==
    /\ \A i \in Items : pc[i] = "done" => ~holds[i]
    /\ phase \in {"running", "cancelled", "returned"} =>
          permits + Cardinality({i \in Items : holds[i]}) = Capacity
    /\ phase = "returned" => permits = Capacity

\* C9 witness: the call returned after one task ended by a driver error
\* and one by a panic, both having held a permit.
C9_Witness ==
    /\ phase = "returned"
    /\ permits = 1
    /\ DOMAIN pc = {0, 1}
    /\ join_result[0].tag = "join_err" /\ old_index[0] # -1
    /\ join_result[1].tag = "err" /\ old_index[1] # -1

\* C10: no key's plaintext occurs in an emitted event, in a task's error,
\* in an error descriptor or in an exception message.
C10_NoSecretLeak ==
    \A k \in Secrets :
        /\ \A ev \in logs : k \notin Atoms(ev)
        /\ \A i \in Items : k \notin Atoms(join_result[i].msg)
        /\ \A i \in DOMAIN results : k \notin Atoms(results[i].msg)
        /\ \A i \in DOMAIN py_results : k \notin Atoms(py_results[i].msg)

\* C10 witness: a returned batch where one item failed on a key that is
\* no legal header value and the other was submitted and polled.
C10_Witness ==
    /\ phase = "returned"
    /\ \E i \in Items :
          results[i].msg = <<"API Error: ">> \o InvalidHeaderValueText(CredsOf(i).api_key)
    /\ \E i \in Items : gets[i] > 0 /\ results[i].tag = "err"
    /\ logs # {}

\* C11: a task's driver returned a payload only if the last poll of its
\* operation answered "succeeded" with analyzeResult present, and the
\* payload is that very value; a "succeeded" answer without analyzeResult
\* has ended the task with the no-result error.
C11_SuccessOnlyFromResult ==
    \A i \in Items :
        /\ join_result[i].tag = "ok" =>
              /\ poll_reply[i].kind = "body"
              /\ poll_reply[i].status = "succeeded"
              /\ IsSome(poll_reply[i].result)
              /\ join_result[i].val = poll_reply[i].result[1]
        /\ (/\ poll_reply[i].kind = "body"
            /\ poll_reply[i].status = "succeeded"
            /\ ~IsSome(poll_reply[i].result)) =>
              /\ pc[i] = "done"
              /\ join_result[i] = ErrOf(NoResultText)

\* C11 witness: of two tasks one returned the analyzeResult it polled and
\* the other polled "succeeded" without a result.
C11_Witness ==
    /\ Items = {0, 1}
    /\ join_result[0] = OkOf(Payload(0, TRUE))
    /\ poll_reply[0].result = Some(Payload(0, TRUE))
    /\ poll_reply[1].kind = "body"
    /\ poll_reply[1].status = "succeeded"
    /\ poll_reply[1].result = None
    /\ join_result[1].tag = "err"

\* C12: after a poll answered with a status, the task is still in its
\* polling loop if and only if the status is exactly "running" or
\* "notStarted" (unless it has unwound since); "failed" has ended it with
\* the analysis-failed error and any status other than the four known
\* ones with an error that carries the status.
C12_StatusDispatch ==
    \A i \in Items :
        poll_reply[i].kind = "body" =>
            LET st == poll_reply[i].status
            IN  /\ st \in {"running", "notStarted"} =>
                      \/ pc[i] \in {"sleeping", "polling"}
                      \/ pc[i] = "done" /\ join_result[i].tag = "join_err"
                /\ st \notin {"running", "notStarted"} =>
                      pc[i] = "done" /\ join_result[i].tag \in {"ok", "err"}
                /\ st = "failed" => join_result[i] = ErrOf(AnalysisFailedText)
                /\ st \notin {"succeeded", "failed", "running", "notStarted"} =>
                      /\ join_result[i].tag = "err"
                      /\ st \in Atoms(join_result[i].msg)
                      /\ join_result[i].msg # AnalysisFailedText

\* C12 witness: one task goes on polling after "notStarted" while the
\* other was ended by a status that differs from "running" in case only.
C12_Witness ==
    /\ Items = {0, 1}
    /\ poll_reply[0].status = "notStarted"
    /\ pc[0] = "polling"
    /\ gets[0] = 2
    /\ poll_reply[1].status = "Running"
    /\ pc[1] = "done"

\* C13: a task sends at most one POST; once a request of it has failed
\* (transport error or error status of the POST or of a poll, or a poll
\* body that does not parse) the task is done with an error; and a task
\* that is done sends no further request.
C13_NoRetries ==
    /\ [](\A i \in Items :
            /\ posts[i] <= 1
            /\ (\/ post_reply[i] \in {"transport_error", "http_error"}
                \/ poll_reply[i].kind \in {"transport_error", "http_error", "bad_body"})
                  => Failed(i) /\ join_result[i].tag = "err")
    /\ [][\A i \in Items :
            pc[i] = "done" => posts'[i] = posts[i] /\ gets'[i] = gets[i]]_vars

\* C13 witness: one task failed at its POST and the other at its second
\* poll, each after exactly the requests it had sent until then.
C13_Witness ==
    /\ Items = {0, 1}
    /\ post_reply[0] = "transport_error"
    /\ posts[0] = 1 /\ gets[0] = 0 /\ Failed(0)
    /\ poll_reply[1].kind = "bad_body"
    /\ posts[1] = 1 /\ gets[1] = 2 /\ Failed(1)

\* C14: a task whose accepted POST came back without the
\* operation-location header, or with one that is not visible ASCII, is
\* done with the corresponding error and has sent no GET.
C14_NoPollWithoutLocation ==
    \A i \in Items :
        post_reply[i] \in {"no_header", "bad_header"} =>
            /\ pc[i] = "done"
            /\ join_result[i] =
                  ErrOf(IF post_reply[i] = "no_header"
                        THEN MissingHeaderText ELSE ToStrErrorText)
            /\ gets[i] = 0
            /\ poll_reply[i] = NoReply

\* C14 witness: one task got no header, the other an unreadable one.
C14_Witness ==
    /\ Items = {0, 1}
    /\ post_reply[0] = "no_header"
    /\ post_reply[1] = "bad_header"
    /\ pc[0] = "done" /\ pc[1] = "done"

\* C15 as stated: in a returned batch the position of a task that
\* unwound holds the descriptor "task faulted: <reason>".
C15_TaskFaultedDescriptor ==
    phase = "returned" =>
        \A i \in Items :
            join_result[i].tag = "join_err" =>
                /\ results[i].tag = "err"
                /\ Head(results[i].msg) = "task faulted: "

\* C15 amended: in a returned batch the position of a task that unwound
\* holds the descriptor "Task panicked: " followed by the JoinError's
\* text, every other position holds what its own task returned, and a
\* running batch in which a task has unwound goes on to return unless
\* its future is dropped.
C15_PanicBecomesDescriptor ==
    /\ [](phase = "returned" =>
            \A i \in DOMAIN join_result :
                /\ join_result[i].tag = "join_err" =>
                      results[i] = ErrOf(<<"Task panicked: ">> \o join_result[i].msg)
                /\ join_result[i].tag = "ok" =>
                      results[i] = OkOf(join_result[i].val)
                /\ join_result[i].tag = "err" =>
                      results[i] = ErrOf(<<"API Error: ">> \o join_result[i].msg))
    /\ ((phase = "running"
          /\ \E i \in DOMAIN join_result : join_result[i].tag = "join_err")
            ~> (phase \in {"returned", "cancelled"}))

\* C15 witness: a returned batch of two whose first task unwound and
\* whose second task returned a payload.
C15_Witness ==
    /\ phase = "returned"
    /\ DOMAIN results = {0, 1}
    /\ join_result[0].tag = "join_err"
    /\ results[0] = ErrOf(<<"Task panicked: ">> \o JoinErrorText("panic"))
    /\ results[1] = OkOf(Payload(1, TRUE))

\* C16: a call whose output_format, stripped of surrounding whitespace
\* and compared without regard to case, is neither "text" nor "markdown"
\* has raised, and no task exists, no permit was handed out, the counter
\* was not drawn from, no request was sent, nothing was logged and no
\* step of a task can follow.
C16_InvalidFormatRaisesFirst ==
    (/\ phase # "idle"
     /\ IsSome(arg.output_format)
     /\ ~Denotes(arg.output_format[1], TextChars)
     /\ ~Denotes(arg.output_format[1], MarkdownChars)) =>
        /\ phase = "raised"
        /\ pc = <<>> /\ holds = <<>> /\ permits = 0
        /\ current_index = 0 /\ old_index = <<>> /\ actual_index = <<>>
        /\ posts = <<>> /\ gets = <<>> /\ analyze_url = <<>>
        /\ logs = {}
        /\ ~ENABLED TaskStep

\* C16 witness: "te xt" with whitespace inside was refused.
C16_Witness ==
    /\ arg.output_format = Some(<<"t", "e", " ", "x", "t">>)
    /\ phase = "raised"

\* C17: a call given no output_format runs with the token text; one given
\* "text" or "markdown" in any letter case and with whitespace around it
\* runs with text or markdown respectively; and the outputContentFormat
\* parameter of every URL built is that token, one of the two.
C17_FormatNormalized ==
    phase # "idle" =>
        /\ ~IsSome(arg.output_format) =>
              phase # "raised" /\ output_format = "text"
        /\ (IsSome(arg.output_format) /\ Denotes(arg.output_format[1], TextChars)) =>
              phase # "raised" /\ output_format = "text"
        /\ (IsSome(arg.output_format) /\ Denotes(arg.output_format[1], MarkdownChars)) =>
              phase # "raised" /\ output_format = "markdown"
        /\ \A i \in Items :
              analyze_url[i] # <<>> =>
                  /\ Cardinality({k \in 1..Len(analyze_url[i]) :
                          analyze_url[i][k] = "&outputContentFormat="}) = 1
                  /\ QueryValue(analyze_url[i], "&outputContentFormat=")
                        \in {<<"text">>, <<"markdown">>}
                  /\ QueryValue(analyze_url[i], "&outputContentFormat=")
                        = <<output_format>>

\* C17 witness: " MarkDown" followed by a tab went into a URL as markdown.
C17_Witness ==
    /\ arg.output_format =
          Some(<<" ", "M", "a", "r", "k", "D", "o", "w", "n", "\t">>)
    /\ Items = {0}
    /\ analyze_url[0] # <<>>
    /\ QueryValue(analyze_url[0], "&outputContentFormat=") = <<"markdown">>

\* C18 as stated: the URL starts with the endpoint less exactly one
\* trailing slash, or with the whole endpoint if it has none.
C18_OneSlashTrimmed ==
    \A i \in Items :
        analyze_url[i] # <<>> =>
            UrlBase(analyze_url[i]) =
                IF arg.endpoint # <<>> /\ arg.endpoint[Len(arg.endpoint)] = "/"
                THEN SubSeq(arg.endpoint, 1, Len(arg.endpoint) - 1)
                ELSE arg.endpoint

\* C18 amended: the URL starts with the endpoint less all its trailing
\* slashes: a prefix of the endpoint that does not end in a slash and is
\* followed in the endpoint by slashes only; slashes further in stay.
C18_AllTrailingSlashesTrimmed ==
    \A i \in Items :
        analyze_url[i] # <<>> =>
            LET b == UrlBase(analyze_url[i])
                e == arg.endpoint
            IN  /\ Len(b) <= Len(e)
                /\ b = SubSeq(e, 1, Len(b))
                /\ \A k \in (Len(b) + 1)..Len(e) : e[k] = "/"
                /\ b = <<>> \/ b[Len(b)] # "/"

\* C18 witness: an endpoint with a path and two trailing slashes.
C18_Witness ==
    /\ arg.endpoint = <<"https:", "/", "/", "host", "/", "path", "/", "/">>
    /\ Items = {0}
    /\ analyze_url[0] # <<>>
    /\ UrlBase(analyze_url[0]) = <<"https:", "/", "/", "host", "/", "path">>

\* C19: behind the path and model id a built URL reads
\* ?api-version=2024-11-30 then &outputContentFormat=<format>; then, if a
\* non-empty feature list was given, &features= and the names in the given
\* order with commas between them; and nothing more otherwise, for an
\* empty list as for none.
C19_QueryLayout ==
    \A i \in Items :
        analyze_url[i] # <<>> =>
            LET u == analyze_url[i]
                q == SubSeq(u, Len(UrlBase(u)) + 3, Len(u))
                rest == SubSeq(q, 5, Len(q))
                fs == IF IsSome(arg.features) THEN arg.features[1] ELSE <<>>
            IN  /\ Len(q) >= 4
                /\ SubSeq(q, 1, 4) = <<":analyze?api-version=", "2024-11-30",
                                       "&outputContentFormat=", output_format>>
                /\ IF fs # <<>>
                   THEN /\ Len(rest) = 2 * Len(fs)
                        /\ rest[1] = "&features="
                        /\ \A k \in 1..Len(fs) : rest[2 * k] = fs[k]
                        /\ \A k \in 1..(Len(fs) - 1) : rest[2 * k + 1] = ","
                   ELSE rest = <<>>

\* C19 witness: two features in an order that is not alphabetical.
C19_Witness ==
    /\ arg.features = Some(<<"ocrHighResolution", "formulas">>)
    /\ Items = {0}
    /\ Len(analyze_url[0]) >= 4
    /\ SubSeq(analyze_url[0], Len(analyze_url[0]) - 3, Len(analyze_url[0]))
          = <<"&features=", "ocrHighResolution", ",", "formulas">>

\* C20: the URL a task has built, by the file driver as by the URL
\* driver, is the one the URL driver's construction gives for the
\* endpoint of the task's credential, the model id, the batch's format and
\* its features; nothing of the item or of its position is in it.
C20_UrlDeterminism ==
    \A i \in Items :
        analyze_url[i] # <<>> =>
            /\ analyze_url[i] =
                  AnalyzeUrl([endpoint |-> credentials[actual_index[i]].endpoint],
                             ModelId, output_format, features)
            /\ {ItemText(i), FileName(i), ToString(i)} \cap Atoms(analyze_url[i]) = {}

\* C20 witness: the file driver built a URL with features for an endpoint
\* with a trailing slash.
C20_Witness ==
    /\ kind = "file"
    /\ Items = {0}
    /\ arg.endpoint = <<"https:", "/", "/", "host", "/">>
    /\ arg.features = Some(<<"formulas", "languages">>)
    /\ analyze_url[0] =
          <<"https:", "/", "/", "host", "/documentintelligence/documentModels/",
            "prebuilt-layout", ":analyze?api-version=", "2024-11-30",
            "&outputContentFormat=", "markdown", "&features=", "formulas", ",",
            "languages">>

\* C21: in a returned batch every position whose driver returned a payload
\* holds a success object carrying that payload, whether or not the
\* payload has the shape of an AnalyzeResult.
C21_PayloadDeliveredVerbatim ==
    phase = "returned" =>
        \A i \in Items :
            join_result[i].tag = "ok" =>
                /\ py_results[i].tag = "object"
                /\ py_results[i].val = join_result[i].val

\* C22: no error descriptor of a returned batch contains a text supplied
\* by the service (the status of a poll answer or the operation-location)
\* that is longer than 256 characters.
C22_BoundedServerText ==
    phase = "returned" =>
        \A i \in Items :
            results[i].tag = "err" =>
                \A t \in {poll_reply[i].status, operation_location[i]} :
                    t \in Atoms(results[i].msg) => Len(t) <= 256

\* C23: a task sends at most one POST and sends it before any GET; a GET
\* is in its history only if the POST was answered with success and an
\* operation-location, and every GET goes to exactly that location; the
\* task moves from submitting to polling or to its end, from polling only
\* to its end, and once ended its history grows no more.
C23_LroStateMachine ==
    /\ [](\A i \in DOMAIN history :
            LET h == history[i]
            IN  /\ Cardinality(At(h, "POST")) <= 1
                /\ \A g \in At(h, "GET") :
                      /\ \E q \in At(h, "POST") : q < g
                      /\ post_reply[i] = "accepted"
                      /\ operation_location[i] = OpLoc(i)
                      /\ h[g].url = <<operation_location[i]>>
                /\ pc[i] \in {"sleeping", "polling"} => post_reply[i] = "accepted")
    /\ [][\A i \in DOMAIN history :
            /\ pc[i] = "submitting" => pc'[i] \in {"submitting", "sleeping", "done"}
            /\ pc[i] \in {"sleeping", "polling"} =>
                  pc'[i] \in {"sleeping", "polling", "done"}
            /\ pc[i] = "done" => pc'[i] = "done" /\ history'[i] = history[i]]_vars

\* C23 witness: one task succeeded after two polls of its operation, the
\* other failed at its submission.
C23_Witness ==
    /\ Items = {0, 1}
    /\ pc[0] = "done" /\ join_result[0].tag = "ok"
    /\ Cardinality(At(history[0], "GET")) = 2
    /\ \A g \in At(history[0], "GET") : history[0][g].url = <<OpLoc(0)>>
    /\ pc[1] = "done" /\ post_reply[1] = "http_error"
    /\ At(history[1], "POST") # {} /\ At(history[1], "GET") = {}

\* C24: in every task's history each GET comes right after exactly one
\* sleep, every sleep lasts one second and is followed by a GET, so one
\* sleep lies between the submission and the first poll and between any
\* two polls.
C24_FixedPollInterval ==
    \A i \in DOMAIN history :
        LET h == history[i]
        IN  /\ \A g \in At(h, "GET") :
                  /\ g > 1
                  /\ h[g - 1].op = "sleep"
                  /\ g > 2 => h[g - 2].op # "sleep"
            /\ \A z \in At(h, "sleep") :
                  /\ h[z].secs = 1
                  /\ z < Len(h)
                  /\ h[z + 1].op = "GET"

\* C24 witness: a task that polled twice: POST, sleep, GET, sleep, GET.
C24_Witness ==
    /\ Items # {}
    /\ Len(history[0]) = 5
    /\ history[0][1].op = "POST"
    /\ history[0][2] = SleepEvent(1) /\ history[0][3].op = "GET"
    /\ history[0][4] = SleepEvent(1) /\ history[0][5].op = "GET"

\* C25 as stated: the counter equals the number of tasks that are past
\* the admission gate, and a waiting task has drawn no counter value, read
\* no file and sent no request.
C25_CounterCountsAdmitted ==
    /\ current_index = Cardinality({i \in Items : pc[i] # "waiting"})
    /\ \A i \in Items :
          pc[i] = "waiting" =>
              old_index[i] = -1 /\ history[i] = <<>> /\ posts[i] = 0 /\ gets[i] = 0

\* C25 amended: the counter equals the number of tasks that have drawn a
\* counter value; each of them holds or has held a permit, so the counter
\* never exceeds the number of tasks past the gate; and a task waiting at
\* the gate has drawn no value, cloned no credential, read no file and sent
\* no request.
C25_PermitBeforeCredential ==
    /\ current_index = Cardinality({i \in Items : old_index[i] # -1})
    /\ current_index <= Cardinality({i \in Items : pc[i] # "waiting"})
    /\ \A i \in Items :
          /\ old_index[i] # -1 => holds[i] \/ pc[i] = "done"
          /\ pc[i] = "waiting" =>
                /\ old_index[i] = -1 /\ actual_index[i] = -1
                /\ ~holds[i]
                /\ history[i] = <<>> /\ posts[i] = 0 /\ gets[i] = 0

\* C25 witness: the only permit is held by a task that has drawn value 0
\* and sent its POST while the other task waits at the gate.
C25_Witness ==
    /\ Items = {0, 1}
    /\ pc[0] = "waiting"
    /\ old_index[1] = 0 /\ current_index = 1
    /\ holds[1] /\ permits = 0
    /\ At(history[1], "POST") # {}

\* C26: the counter values drawn so far are distinct and are exactly
\* 0 .. counter - 1; once all M tasks of a batch over K >= 1 credentials
\* have drawn, the values are 0 .. M - 1 and every credential was cloned
\* by floor(M / K) or ceil(M / K) tasks.
C26_NoLostIncrement ==
    LET drawn == {i \in Items : old_index[i] # -1}
        M == Cardinality(Items)
        K == ListLen
    IN  /\ \A i \in drawn : \A j \in drawn : old_index[i] = old_index[j] => i = j
        /\ {old_index[i] : i \in drawn} = 0..(current_index - 1)
        /\ (K >= 1 /\ drawn = Items) =>
              /\ {old_index[i] : i \in Items} = 0..(M - 1)
              /\ \A c \in DOMAIN credentials :
                    Cardinality({i \in Items : actual_index[i] = c})
                        \in {M \div K, (M + K - 1) \div K}

\* C26 witness: two tasks over two credentials drew against input order,
\* each getting a value and a credential of its own.
C26_Witness ==
    /\ Items = {0, 1}
    /\ ListLen = 2
    /\ old_index[0] = 1 /\ old_index[1] = 0
    /\ actual_index[0] = 1 /\ actual_index[1] = 0

\* C27: every POST and GET of an item carries the key of the credential
\* the item drew (the one at its counter value modulo the list length) and
\* the key of no credential drawn by another item; its POST goes to the
\* endpoint of that same credential.
C27_OneCredentialPerItem ==
    \A i \in Items :
        \A k \in At(history[i], "POST") \cup At(history[i], "GET") :
            LET e == history[i][k]
            IN  /\ old_index[i] # -1
                /\ actual_index[i] = old_index[i] % ListLen
                /\ e.key = credentials[actual_index[i]].api_key.secret
                /\ \A j \in Items :
                      (actual_index[j] \notin {-1, actual_index[i]})
                          => e.key # credentials[actual_index[j]].api_key.secret
                /\ e.op = "POST" =>
                      \E n \in 0..Len(credentials[actual_index[i]].endpoint) :
                          credentials[actual_index[i]].endpoint
                              = UrlBase(e.url) \o [m \in 1..n |-> "/"]

\* C27 witness: two items hold different credentials and the item with the
\* second credential has sent its POST and a GET.
C27_Witness ==
    /\ Items = {0, 1}
    /\ actual_index[0] = 1 /\ actual_index[1] = 0
    /\ At(history[0], "POST") # {} /\ At(history[0], "GET") # {}
    /\ At(history[1], "POST") # {}

\* C28: a file item whose open fails never reads, and a file item that
\* ends with an open or read error names its path in the error, has issued
\* no POST and no GET and holds no permit; the step that ends it gives its
\* permit back to the semaphore.
C28_FileErrorEndsItem ==
    /\ [](\A i \in Items :
            LET msg == join_result[i].msg
            IN  /\ (At(history[i], "open") # {} /\ At(history[i], "read") = {})
                      => /\ pc[i] = "done"
                         /\ join_result[i].tag = "err"
                         /\ Len(msg) = 4 /\ msg[1] = "Failed to open file "
                /\ (Len(msg) > 0
                        /\ msg[1] \in {"Failed to open file ", "Failed to read file "})
                      => /\ kind = "file"
                         /\ pc[i] = "done"
                         /\ msg[2] = ItemText(i)
                         /\ At(history[i], "POST") = {} /\ At(history[i], "GET") = {}
                         /\ posts[i] = 0 /\ gets[i] = 0
                         /\ ~holds[i])
    /\ [][\A i \in Items :
            (pc[i] = "opening" /\ pc'[i] = "done" /\ join_result'[i].tag = "err")
                => /\ holds[i] /\ ~holds'[i]
                   /\ permits' = permits + 1
                   /\ join_result'[i].msg[1]
                          \in {"Failed to open file ", "Failed to read file "}]_vars

\* C28 witness: with one permit in all, the first file could not be opened
\* and the second item was admitted afterwards and sent its POST, and the
\* call returned with an error descriptor at the first position.
C28_Witness ==
    /\ phase = "returned"
    /\ Items = {0, 1}
    /\ kind = "file"
    /\ max_rps * ListLen = 1
    /\ finished = <<0, 1>>
    /\ join_result[0].msg = OpenErrorText(ItemText(0), IoErrorCause)
    /\ At(history[1], "POST") # {}
    /\ results[0].tag = "err"

\* The content type of each extension the service is sent by name.
ContentTypes ==
    [pdf |-> "application/pdf", jpg |-> "image/jpeg", jpeg |-> "image/jpeg",
     png |-> "image/png", tiff |-> "image/tiff", tif |-> "image/tiff",
     bmp |-> "image/bmp"]

\* The path ends in a name, a dot and the extension e, the name being
\* more than the dot itself.
EndsInExtension(path, e) ==
    /\ Len(path) >= 3
    /\ path[Len(path)] = e
    /\ path[Len(path) - 1] = "."
    /\ path[Len(path) - 2] # "/"

\* C29: the Content-Type of a file upload is the listed type when the
\* path ends in one of the seven lower-case extensions exactly as spelled,
\* and application/octet-stream for every other or missing extension,
\* an upper-case spelling included.
C29_ContentTypeByExactExtension ==
    (kind = "file" /\ DOMAIN arg # {}) =>
        \A i \in Items : \A k \in At(history[i], "POST") :
            history[i][k].content_type =
                IF \E e \in DOMAIN ContentTypes : EndsInExtension(arg.file_path, e)
                THEN ContentTypes[CHOOSE e \in DOMAIN ContentTypes :
                                      EndsInExtension(arg.file_path, e)]
                ELSE "application/octet-stream"

\* C29 witness: /tmp/x.PNG was uploaded as application/octet-stream.
C29_Witness ==
    /\ kind = "file"
    /\ DOMAIN arg # {}
    /\ arg.file_path = <<"/", "tmp", "/", "x", ".", "PNG">>
    /\ At(history[0], "POST") # {}
    /\ history[0][CHOOSE k \in At(history[0], "POST") : TRUE].content_type
          = "application/octet-stream"

\* C30: the counter stays within its width; a draw at the largest value
\* leaves the counter at zero and any other draw one higher, the drawing
\* task goes on to its driver, and over a list of K >= 1 credentials every
\* index a task computed lies in 0 .. K - 1.
C30_WrapKeepsIndexInRange ==
    /\ [](/\ current_index \in 0..(2 ^ CounterBits - 1)
          /\ ListLen >= 1 =>
                \A i \in Items :
                    old_index[i] # -1 =>
                        /\ old_index[i] \in 0..(2 ^ CounterBits - 1)
                        /\ actual_index[i] \in 0..(ListLen - 1)
                        /\ actual_index[i] \in DOMAIN credentials)
    /\ [][\A i \in Items :
            (old_index[i] = -1 /\ old_index'[i] # -1) =>
                /\ old_index'[i] = current_index
                /\ current_index' = IF current_index = 2 ^ CounterBits - 1
                                     THEN 0 ELSE current_index + 1
                /\ ListLen >= 1 =>
                      /\ pc'[i] \in {"opening", "ready"}
                      /\ join_result'[i] = NoOutcome]_vars

\* C30 witness: one task drew the largest counter value and the other
\* drew zero after the wrap; both got a credential of the two-element
\* list and both sent their POST.
C30_Witness ==
    /\ ListLen = 2
    /\ old_index[0] = 2 ^ CounterBits - 1
    /\ old_index[1] = 0
    /\ current_index = 1
    /\ actual_index[0] = (2 ^ CounterBits - 1) % 2
    /\ actual_index[1] = 0
    /\ posts[0] > 0 /\ posts[1] > 0

\* C31 as claimed: a batch call leaves the counter at zero, and the
\* task that was admitted first is handed credential 0 when it draws.
C31_FirstAdmittedGetsZero ==
    [][/\ (phase # "running" /\ phase' = "running") => current_index' = 0
       /\ \A i \in Items :
            (ListLen >= 1 /\ first_admitted = i /\ pc[i] = "admitted"
                    /\ actual_index'[i] # -1)
                => actual_index'[i] = 0]_vars

\* C31: in every batch call on a client, however many items the calls
\* before it were given, the counter is at zero while no task has drawn,
\* and the first task to draw (the task holding counter value 0) holds
\* credential 0.
C31_FirstDrawGetsZero ==
    /\ (\A i \in Items : old_index[i] = -1) => current_index = 0
    /\ (\E i \in Items : old_index[i] # -1) => (\E i \in Items : old_index[i] = 0)
    /\ \A i \in Items :
          (ListLen >= 1 /\ old_index[i] = 0) => actual_index[i] = 0

\* C31 witness: after a batch of one item over two credentials, the
\* second task of the next batch drew first and submitted with
\* credential 0, while the first task, admitted before it, has not drawn.
C31_Witness ==
    /\ served = 1
    /\ ListLen = 2
    /\ Items = {0, 1}
    /\ first_admitted = 0
    /\ pc[0] = "admitted"
    /\ old_index[1] = 0 /\ actual_index[1] = 0
    /\ posts[1] > 0

\* C32: each of two batch calls running at once on a client keeps its own
\* permit account (free permits plus held permits make up its own
\* capacity), a waiting task can pass its gate whenever its own call has a
\* free permit, whatever the other call holds, no step of one call changes
\* the permits or results of the other, and each call returns one result
\* per item of its own, a success carrying that item's payload.
C32_LimiterPerCall ==
    /\ [](/\ phase \in {"running", "cancelled", "returned"}
                => permits + Cardinality({i \in Items : holds[i]})
                       = max_rps * ListLen
          /\ other # <<>>
                => other.permits + Cardinality({j \in OtherTasks : other.holds[j]})
                       = other.max_rps * ListLen
          /\ \A i \in Items :
                (phase \in Live /\ pc[i] = "waiting" /\ permits > 0)
                    => ENABLED Admit(i)
          /\ \A j \in OtherTasks :
                (other.phase = "running" /\ other.pc[j] = "waiting"
                        /\ other.permits > 0)
                    => ENABLED OtherAdmit(j)
          /\ phase = "returned"
                => /\ DOMAIN results = Items
                   /\ \A i \in Items :
                         results[i].tag = "ok" => results[i].val.item = i
          /\ (other # <<>> /\ other.phase = "returned")
                => /\ DOMAIN other.results = OtherTasks
                   /\ \A j \in OtherTasks :
                         other.results[j].tag = "ok"
                             => other.results[j].val.item = OtherItem(j))
    /\ [][/\ other' # other
                => UNCHANGED <<permits, holds, pc, current_index, join_result,
                               results>>
          /\ (permits' # permits \/ holds' # holds \/ results' # results)
                => other' = other]_vars

\* C32 witness: both calls are at their capacity of one at the same time,
\* each with a task in flight and a task waiting at its own gate.
C32_Witness ==
    /\ phase = "running"
    /\ other # <<>>
    /\ other.phase = "running"
    /\ max_rps * ListLen = 1
    /\ other.max_rps * ListLen = 1
    /\ permits = 0 /\ other.permits = 0
    /\ \E i \in Items : holds[i] /\ posts[i] > 0
    /\ \E i \in Items : pc[i] = "waiting"
    /\ \E j \in OtherTasks : other.holds[j]
    /\ \E j \in OtherTasks : other.pc[j] = "waiting"

\* C33: whatever max_rps and credential list a batch call is given, the
\* call does not panic and the permits of its limiter, free and held,
\* number max_rps times the length of the list.
C33_CapacityIsProduct ==
    /\ phase # "panicked"
    /\ phase \in {"running", "cancelled", "returned"}
          => permits + Cardinality({i \in Items : holds[i]}) = max_rps * ListLen

\* C34: however many clients are constructed, no construction panics,
\* the subscriber has been installed once if some client was constructed
\* with enable_logs = true and never otherwise, the cell and the global
\* default agree with that, and no event is emitted while none is
\* installed.
C34_TracingInstalledOnce ==
    /\ phase # "new_panicked"
    /\ installs = (IF \E n \in 1..Len(constructed) : constructed[n] THEN 1 ELSE 0)
    /\ TRACING_INIT = (IF installs = 1 THEN Some("()") ELSE None)
    /\ global_default = (IF installs = 1 THEN "fmt" ELSE "none")
    /\ installs = 0 => logs = {}

\* C34 witness: a client without logs, then two clients with logs were
\* constructed; the subscriber was installed once and the last client's
\* batch call emitted events.
C34_Witness ==
    /\ constructed = <<FALSE, TRUE, TRUE>>
    /\ installs = 1
    /\ phase = "returned"
    /\ logs # {}

====
